---- MODULE Spec2Model ----
(***************************************************************************)
(* Snowflake ID generator (src/src/snowflake.ts): configuration            *)
(* validation, bit packing (composeId / compose), unpacking (decompose)    *)
(* and the clock-driven sequencing of generate().                          *)
(*                                                                         *)
(* The layout is scaled down so that the model checker can enumerate it:   *)
(* the timestamp field has TimestampBits bits instead of 41 and the        *)
(* worker/process/sequence budget is BitBudget bits instead of 22.  All    *)
(* arithmetic is on unbounded integers, as the source's BigInt is.         *)
(***************************************************************************)
EXTENDS Integers, Sequences, FiniteSets, TLC

\* ------------------------------------------------------------------ bounds
\* Width of the timestamp field (41 in the source, line 86).
TimestampBits == 1
\* Bits available to worker + process + sequence (22 in the source, line 131).
BitBudget == 3
\* Largest epoch that is not in the future when the clock starts.
MaxEpoch == 1
\* Bits of a Number's significand (53 in the source's IEEE 754 doubles).
MantissaBits == 3

\* ------------------------------------------------- BigInt bit operations
\* a | b on two's-complement integers of unbounded width.
RECURSIVE BitOr(_, _)
BitOr(a, b) ==
    IF a = 0 THEN b
    ELSE IF b = 0 THEN a
    ELSE IF a = -1 \/ b = -1 THEN -1
    ELSE (IF a % 2 = 1 \/ b % 2 = 1 THEN 1 ELSE 0) + 2 * BitOr(a \div 2, b \div 2)

\* a & b on two's-complement integers of unbounded width.
RECURSIVE BitAnd(_, _)
BitAnd(a, b) ==
    IF a = 0 \/ b = 0 THEN 0
    ELSE IF a = -1 THEN b
    ELSE IF b = -1 THEN a
    ELSE (IF a % 2 = 1 /\ b % 2 = 1 THEN 1 ELSE 0) + 2 * BitAnd(a \div 2, b \div 2)

\* a << n and a >> n (arithmetic shift: floor division).
ShiftLeft(a, n) == a * (2 ^ n)
ShiftRight(a, n) == a \div (2 ^ n)

\* Number(x) of a bigint x: the nearest value with MantissaBits significant
\* bits, a tie going to the even significand.
RECURSIVE BitLength(_)
BitLength(n) == IF n = 0 THEN 0 ELSE 1 + BitLength(n \div 2)

\* Faulty variant of ToNumber: one significant bit fewer, the rest cut off.
ToNumber_Short(n) ==
    LET a == IF n < 0 THEN -n ELSE n
        e == BitLength(a) - (MantissaBits - 1)
        m == IF e <= 0 THEN a ELSE (a \div (2 ^ e)) * (2 ^ e)
    IN IF n < 0 THEN -m ELSE m

ToNumber(n) ==
    LET a == IF n < 0 THEN -n ELSE n
        e == BitLength(a) - MantissaBits
    IN IF e <= 0 THEN n
       ELSE LET q == a \div (2 ^ e)
                r == a % (2 ^ e)
                half == 2 ^ (e - 1)
                up == r > half \/ (r = half /\ q % 2 = 1)
                m == (IF up THEN q + 1 ELSE q) * (2 ^ e)
            IN IF n < 0 THEN -m ELSE m

\* --------------------------------------------------------- configuration
\* An optional field of SnowflakeConfig is a set: {} when omitted, {v} when given.
Given(opt) == CHOOSE v \in opt : TRUE

\* Scaled counterparts of DEFAULT_EPOCH and DEFAULT_BITS: the default widths
\* use the whole budget with no process bits, as 10 + 0 + 12 = 22 does.
DEFAULT_EPOCH == MaxEpoch
DEFAULT_BITS == [workerId |-> BitBudget - 2, processId |-> 0, sequence |-> 2]

\* config.x ?? default
resolveConfig(c) ==
    [epoch     |-> IF c.epoch = {} THEN DEFAULT_EPOCH ELSE Given(c.epoch),
     workerId  |-> c.workerId,
     processId |-> IF c.processId = {} THEN 0 ELSE Given(c.processId),
     bits      |-> IF c.bits = {} THEN DEFAULT_BITS ELSE Given(c.bits)]

\* Faulty variant of MaxOf: the maximum is one too large.
MaxOf_OffByOne(bits) == IF bits > 0 THEN ShiftLeft(1, bits) ELSE 0

\* bits > 0 ? (1 << bits) - 1 : 0
MaxOf(bits) == IF bits > 0 THEN ShiftLeft(1, bits) - 1 ELSE 0

\* Faulty variant of validateConfig: the identifiers' signs are checked
\* before the sum of the widths.
validateConfig_IdsFirst(c, dateNow) ==
    LET bits == c.bits
        totalBits == bits.workerId + bits.processId + bits.sequence
    IN
    IF c.epoch > dateNow THEN "Epoch cannot be in the future"
    ELSE IF bits.workerId < 0 \/ bits.processId < 0 \/ bits.sequence < 0
        THEN "All bit allocations must be non-negative"
    ELSE IF bits.workerId = 0 /\ bits.processId = 0 /\ bits.sequence = 0
        THEN "At least one bit allocation must be greater than 0"
    ELSE IF c.workerId < 0 THEN "Worker ID cannot be negative"
    ELSE IF c.processId < 0 THEN "Process ID cannot be negative"
    ELSE IF totalBits > BitBudget
        THEN "Total bits exceed maximum available bits"
    ELSE IF c.workerId > MaxOf(bits.workerId) THEN "Worker ID exceeds maximum value"
    ELSE IF c.processId > MaxOf(bits.processId) THEN "Process ID exceeds maximum value"
    ELSE "ok"

\* validateConfig: "ok", or the message of the first check that throws.
validateConfig(c, dateNow) ==
    LET bits == c.bits
        totalBits == bits.workerId + bits.processId + bits.sequence
    IN
    IF c.epoch > dateNow THEN "Epoch cannot be in the future"
    ELSE IF bits.workerId < 0 \/ bits.processId < 0 \/ bits.sequence < 0
        THEN "All bit allocations must be non-negative"
    ELSE IF bits.workerId = 0 /\ bits.processId = 0 /\ bits.sequence = 0
        THEN "At least one bit allocation must be greater than 0"
    ELSE IF totalBits > BitBudget
        THEN "Total bits exceed maximum available bits"
    ELSE IF c.workerId < 0 THEN "Worker ID cannot be negative"
    ELSE IF c.processId < 0 THEN "Process ID cannot be negative"
    ELSE IF c.workerId > MaxOf(bits.workerId) THEN "Worker ID exceeds maximum value"
    ELSE IF c.processId > MaxOf(bits.processId) THEN "Process ID exceeds maximum value"
    ELSE "ok"

\* The readonly fields the constructor derives from the resolved configuration.
maxSequenceOf(c) == MaxOf(c.bits.sequence)
maxProcessOf(c) == MaxOf(c.bits.processId)
maxWorkerOf(c) == MaxOf(c.bits.workerId)
\* Faulty variant of workerShiftOf: the worker field starts one bit too high.
workerShiftOf_OneMore(c) == c.bits.sequence + 1
workerShiftOf(c) == c.bits.sequence
\* Faulty variant of processShiftOf: the worker width is left out.
processShiftOf_NoWorker(c) == c.bits.sequence
processShiftOf(c) == c.bits.sequence + c.bits.workerId
\* Faulty variant of timestampShiftOf: the process width is left out.
timestampShiftOf_NoProcess(c) == c.bits.sequence + c.bits.workerId
timestampShiftOf(c) == c.bits.sequence + c.bits.workerId + c.bits.processId
maxTimestamp == ShiftLeft(1, TimestampBits) - 1

\* ------------------------------------------------------ pack and unpack
composeId(c, timestamp, workerId, processId, sequence) ==
    LET timestampBits == ShiftLeft(timestamp, timestampShiftOf(c))
        processIdBits == ShiftLeft(processId, processShiftOf(c))
        workerIdBits  == ShiftLeft(workerId, workerShiftOf(c))
        sequenceBits  == sequence
    IN BitOr(BitOr(BitOr(timestampBits, processIdBits), workerIdBits), sequenceBits)

Thrown(kind, msg) == [kind |-> kind, msg |-> msg, id |-> 0]
Returned(id) == [kind |-> "id", msg |-> "", id |-> id]

\* Faulty variant of compose: the ceiling of the adjusted timestamp is not checked.
compose_NoCeiling(c, timestamp, workerId, processId, sequence) ==
    IF timestamp < 0
        THEN Thrown("ConfigurationError", "Timestamp cannot be negative")
    ELSE IF workerId < 0 \/ workerId > maxWorkerOf(c)
        THEN Thrown("ConfigurationError", "Worker ID must be between 0 and max")
    ELSE IF processId < 0 \/ processId > maxProcessOf(c)
        THEN Thrown("ConfigurationError", "Process ID must be between 0 and max")
    ELSE IF sequence < 0 \/ sequence > maxSequenceOf(c)
        THEN Thrown("ConfigurationError", "Sequence must be between 0 and max")
    ELSE Returned(composeId(c, timestamp - c.epoch, workerId, processId, sequence))

compose(c, timestamp, workerId, processId, sequence) ==
    IF timestamp < 0
        THEN Thrown("ConfigurationError", "Timestamp cannot be negative")
    ELSE IF workerId < 0 \/ workerId > maxWorkerOf(c)
        THEN Thrown("ConfigurationError", "Worker ID must be between 0 and max")
    ELSE IF processId < 0 \/ processId > maxProcessOf(c)
        THEN Thrown("ConfigurationError", "Process ID must be between 0 and max")
    ELSE IF sequence < 0 \/ sequence > maxSequenceOf(c)
        THEN Thrown("ConfigurationError", "Sequence must be between 0 and max")
    ELSE LET adjustedTimestamp == timestamp - c.epoch IN
         IF adjustedTimestamp > maxTimestamp
            THEN Thrown("ConfigurationError", "Timestamp exceeds maximum value")
         ELSE Returned(composeId(c, adjustedTimestamp, workerId, processId, sequence))

InvalidId(msg) ==
    [kind |-> "InvalidIdError", msg |-> msg,
     timestamp |-> 0, workerId |-> 0, processId |-> 0, sequence |-> 0]
Components(timestamp, workerId, processId, sequence) ==
    [kind |-> "components", msg |-> "",
     timestamp |-> timestamp, workerId |-> workerId,
     processId |-> processId, sequence |-> sequence]

\* Faulty variant of decompose: the sign of the ID is not checked.
decompose_NoSign(c, x) ==
    IF x.typeof # "bigint" THEN InvalidId("ID must be a bigint")
    ELSE LET id == x.val
             sequence == ToNumber(BitAnd(id, maxSequenceOf(c)))
             workerId == ToNumber(BitAnd(ShiftRight(id, workerShiftOf(c)), maxWorkerOf(c)))
             processId == ToNumber(BitAnd(ShiftRight(id, processShiftOf(c)), maxProcessOf(c)))
             adjustedTimestamp == ToNumber(ShiftRight(id, timestampShiftOf(c)))
         IN Components(ToNumber(adjustedTimestamp + c.epoch), workerId, processId, sequence)

\* The argument of decompose is a value x with its JavaScript typeof.
decompose(c, x) ==
    IF x.typeof # "bigint" THEN InvalidId("ID must be a bigint")
    ELSE IF x.val < 0 THEN InvalidId("ID cannot be negative")
    ELSE LET id == x.val
             sequence == ToNumber(BitAnd(id, maxSequenceOf(c)))
             workerId == ToNumber(BitAnd(ShiftRight(id, workerShiftOf(c)), maxWorkerOf(c)))
             processId == ToNumber(BitAnd(ShiftRight(id, processShiftOf(c)), maxProcessOf(c)))
             adjustedTimestamp == ToNumber(ShiftRight(id, timestampShiftOf(c)))
         IN Components(ToNumber(adjustedTimestamp + c.epoch), workerId, processId, sequence)

\* ------------------------------------------------------------ the state
VARIABLES
    now,               \* Date.now(): the wall clock, in milliseconds
    status,            \* per instance: "new", "ready" (constructed), "failed" (constructor threw)
    config,            \* per instance: this.config, the resolved configuration
    sequence,          \* per instance: this.sequence
    lastTimestamp,     \* per instance: this.lastTimestamp
    pc,                \* per instance: "idle", or "waiting" inside waitForNextMillisecond
    currentTimestamp,  \* per instance: the argument of the running waitForNextMillisecond
    ev,                \* the latest completed call: [inst, op, args, res]; the args of a
                       \* generate() that polled are <<the millisecond it found exhausted>>
    run,               \* how many of the latest generate() calls (0, 1, 2 for two or
                       \* more) were made in succession on one instance and returned an
                       \* ID, with no backward move of the clock between them
    marked,            \* observer: at most one returned ID, remembered with (when track
                       \* is set) what has happened since: the clock moved backwards
                       \* (back), a generate() of that instance threw ClockBackwardsError
                       \* (failed)
    watch              \* what the observer records besides ev: "calls" (run), "history"
                       \* (run and a tracked marked ID) or "ids" (a marked ID alone)

vars ==
    <<now, status, config, sequence, lastTimestamp, pc, currentTimestamp, ev, run, marked, watch>>

\* The clock starts at MaxEpoch and reads 0..MaxNow, so that the epoch-relative
\* time ranges from below 0 to past maxTimestamp.
StartTime == MaxEpoch
MaxNow == MaxEpoch + maxTimestamp + 2

NoConfig ==
    [epoch |-> 0, workerId |-> 0, processId |-> 0,
     bits |-> [workerId |-> 0, processId |-> 0, sequence |-> 0]]
NoMark == [inst |-> 0, id |-> 0, track |-> FALSE, back |-> FALSE, failed |-> FALSE]
NoCall == [inst |-> 0, op |-> "none", args |-> <<>>, res |-> Thrown("none", "")]

\* The configurations a constructor call is drawn from: every field omitted or
\* given, each value from below its legal range to above it.
Clamp(n) == IF n < 0 THEN 0 ELSE IF n > BitBudget THEN BitBudget ELSE n
BitWidths == -1 .. BitBudget + 1
BitChoices ==
    {[workerId |-> w, processId |-> p, sequence |-> s] : w \in BitWidths, p \in BitWidths, s \in BitWidths}
RawConfigs ==
    UNION {
        [epoch : {{}} \cup {{e} : e \in 0 .. MaxEpoch + 1},
         workerId : -1 .. MaxOf(Clamp(b.workerId)) + 1,
         processId : {{}} \cup {{p} : p \in -1 .. MaxOf(Clamp(b.processId)) + 1},
         bits : {{b}}]
        : b \in BitChoices }
    \cup
    [epoch : {{}} \cup {{e} : e \in 0 .. MaxEpoch + 1},
     workerId : -1 .. MaxOf(DEFAULT_BITS.workerId) + 1,
     processId : {{}} \cup {{-1}, {0}, {1}},
     bits : {{}}]

InitOver(I, w) ==
    /\ watch = w
    /\ now = StartTime
    /\ status = [i \in I |-> "new"]
    /\ config = [i \in I |-> NoConfig]
    /\ sequence = [i \in I |-> 0]
    /\ lastTimestamp = [i \in I |-> -1]
    /\ pc = [i \in I |-> "idle"]
    /\ currentTimestamp = [i \in I |-> -1]
    /\ ev = NoCall
    /\ run = 0
    /\ marked = NoMark

\* ------------------------------------------------------------ the clock
\* The clock is the environment: it moves a millisecond at a time, forwards or
\* backwards, between any two steps of the program (a jump is several moves).
\* It is followed from the first successful construction on: until then the
\* only reading is the constructor's, at StartTime.
Observed == \E i \in DOMAIN status : status[i] = "ready"

ClockForward(limit) ==
    /\ Observed
    /\ now < limit
    /\ now' = now + 1
    /\ UNCHANGED <<status, config, sequence, lastTimestamp, pc, currentTimestamp, ev, run, marked, watch>>

ClockBackward ==
    /\ Observed
    /\ now > 0
    /\ now' = now - 1
    /\ run' = 0
    /\ watch' = watch
    /\ marked' = IF marked.track THEN [marked EXCEPT !.back = TRUE] ELSE marked
    /\ UNCHANGED <<status, config, sequence, lastTimestamp, pc, currentTimestamp, ev>>

\* ------------------------------------------------------- the constructor
Construct(i, raw) ==
    /\ status[i] = "new"
    /\ LET c == resolveConfig(raw)
           v == validateConfig(c, now)
       IN /\ config' = [config EXCEPT ![i] = c]
          /\ status' = [status EXCEPT ![i] = IF v = "ok" THEN "ready" ELSE "failed"]
          /\ ev' = [inst |-> i, op |-> "constructor", args |-> <<>>,
                    res |-> IF v = "ok" THEN Thrown("SnowflakeGenerator", "")
                            ELSE Thrown("ConfigurationError", v)]
    /\ sequence' = [sequence EXCEPT ![i] = 0]
    /\ lastTimestamp' = [lastTimestamp EXCEPT ![i] = -1]
    /\ UNCHANGED <<now, pc, currentTimestamp, run, marked, watch>>

\* ------------------------------------------------------------ generate()
\* Faulty variant of getCurrentTimestamp: the reading is a millisecond early.
getCurrentTimestamp_Early(c, dateNow) == dateNow - c.epoch - 1
\* Date.now() - this.config.epoch
getCurrentTimestamp(c, dateNow) == dateNow - c.epoch

\* Faulty variant of ClockMovedBackwards: a step back of one millisecond passes.
ClockMovedBackwards_OffByOne(timestamp, last) == timestamp < last - 1

\* timestamp < this.lastTimestamp
ClockMovedBackwards(timestamp, last) == timestamp < last

\* Faulty variant of NextSequence: the increment is not masked.
NextSequence_NoMask(seq, maxSeq) == seq + 1

\* (this.sequence + 1) & this.maxSequence
NextSequence(seq, maxSeq) == BitAnd(seq + 1, maxSeq)

\* Faulty variant of Overflowed: the wrap to 0 goes unnoticed.
Overflowed_Never(seq) == FALSE

\* this.sequence === 0 after the increment: the millisecond is exhausted
Overflowed(seq) == seq = 0

\* The observer may remember the ID a call returns, when it holds none yet.
Marks(i, res) ==
    IF marked.inst = 0
    THEN {marked} \cup
         IF watch # "calls" /\ res.kind = "id"
         THEN {[inst |-> i, id |-> res.id, track |-> (watch = "history"),
                back |-> FALSE, failed |-> FALSE]}
         ELSE {}
    ELSE IF marked.track /\ marked.inst = i /\ res.kind = "ClockBackwardsError"
         THEN {[marked EXCEPT !.failed = TRUE]}
         ELSE {marked}

\* A generate() call on i completes with res.
Complete(i, args, res) ==
    /\ ev' = [inst |-> i, op |-> "generate", args |-> args, res |-> res]
    /\ pc' = [pc EXCEPT ![i] = "idle"]
    /\ run' = IF watch = "ids" \/ res.kind # "id" THEN 0
              ELSE IF run >= 1 /\ ev.inst = i THEN 2
              ELSE 1
    /\ marked' \in Marks(i, res)

\* Faulty variant of StillWaiting: the loop never sees a later reading.
StillWaiting_Stale(timestamp, current) == TRUE

\* Faulty variant of StillWaiting: the loop ends in the same millisecond.
StillWaiting_Strict(timestamp, current) == timestamp < current

\* while (timestamp <= currentTimestamp)
StillWaiting(timestamp, current) == timestamp <= current

\* Faulty variant of Exhausted: the last millisecond is refused too.
Exhausted_AtCeiling(timestamp) == timestamp >= maxTimestamp

\* timestamp > this.maxTimestamp
Exhausted(timestamp) == timestamp > maxTimestamp

\* Faulty variant of Finish: the ceiling is checked before the state is
\* written, so an exhausted call leaves the state as it was.
Finish_CheckFirst(i, args, timestamp, seq) ==
    IF Exhausted(timestamp)
    THEN /\ UNCHANGED <<sequence, lastTimestamp>>
         /\ Complete(i, args, Thrown("TimestampExhaustedError", "Maximum timestamp exceeded"))
    ELSE /\ sequence' = [sequence EXCEPT ![i] = seq]
         /\ lastTimestamp' = [lastTimestamp EXCEPT ![i] = timestamp]
         /\ Complete(i, args, Returned(composeId(config[i], timestamp, config[i].workerId,
                                                  config[i].processId, seq)))

\* Faulty variant of Finish: lastTimestamp and sequence are shared by all
\* instances, as static fields would be.
Finish_Shared(i, args, timestamp, seq) ==
    /\ sequence' = [j \in DOMAIN sequence |-> seq]
    /\ lastTimestamp' = [j \in DOMAIN lastTimestamp |-> timestamp]
    /\ Complete(i, args,
                IF Exhausted(timestamp)
                THEN Thrown("TimestampExhaustedError", "Maximum timestamp exceeded")
                ELSE Returned(composeId(config[i], timestamp, config[i].workerId,
                                        config[i].processId, seq)))

\* Lines 197-209: adopt the timestamp, check the ceiling, pack.
Finish(i, args, timestamp, seq) ==
    /\ sequence' = [sequence EXCEPT ![i] = seq]
    /\ lastTimestamp' = [lastTimestamp EXCEPT ![i] = timestamp]
    /\ Complete(i, args,
                IF Exhausted(timestamp)
                THEN Thrown("TimestampExhaustedError", "Maximum timestamp exceeded")
                ELSE Returned(composeId(config[i], timestamp, config[i].workerId,
                                        config[i].processId, seq)))

\* generate() from its first clock reading to its return, its throw, or its
\* entry into the polling loop of waitForNextMillisecond.
GenerateCall(i) ==
    /\ status[i] = "ready"
    /\ pc[i] = "idle"
    /\ LET timestamp == getCurrentTimestamp(config[i], now) IN
       IF ClockMovedBackwards(timestamp, lastTimestamp[i])
       THEN /\ Complete(i, <<>>, Thrown("ClockBackwardsError", "Clock moved backwards"))
            /\ UNCHANGED <<sequence, lastTimestamp, currentTimestamp>>
       ELSE IF timestamp = lastTimestamp[i]
       THEN LET seq == NextSequence(sequence[i], maxSequenceOf(config[i])) IN
            IF Overflowed(seq)
            THEN /\ sequence' = [sequence EXCEPT ![i] = seq]
                 /\ pc' = [pc EXCEPT ![i] = "waiting"]
                 /\ currentTimestamp' = [currentTimestamp EXCEPT ![i] = timestamp]
                 /\ UNCHANGED <<lastTimestamp, ev, run, marked, watch>>
            ELSE /\ Finish(i, <<>>, timestamp, seq)
                 /\ UNCHANGED currentTimestamp
       ELSE /\ Finish(i, <<>>, timestamp, 0)
            /\ UNCHANGED currentTimestamp
    /\ UNCHANGED <<now, status, config, watch>>

\* Faulty variant of Poll: every reading of the loop is checked against
\* lastTimestamp as the first reading is.
Poll_ChecksBackwards(i) ==
    /\ status[i] = "ready"
    /\ pc[i] = "waiting"
    /\ LET timestamp == getCurrentTimestamp(config[i], now) IN
       IF ClockMovedBackwards(timestamp, lastTimestamp[i])
       THEN /\ Complete(i, <<currentTimestamp[i]>>,
                        Thrown("ClockBackwardsError", "Clock moved backwards"))
            /\ UNCHANGED <<sequence, lastTimestamp>>
       ELSE IF StillWaiting(timestamp, currentTimestamp[i])
       THEN UNCHANGED <<sequence, lastTimestamp, pc, ev, run, marked, watch>>
       ELSE Finish(i, <<currentTimestamp[i]>>, timestamp, sequence[i])
    /\ UNCHANGED <<now, status, config, currentTimestamp, watch>>

\* One clock reading of the loop in waitForNextMillisecond, and, once the
\* reading is past currentTimestamp, the rest of generate().
Poll(i) ==
    /\ status[i] = "ready"
    /\ pc[i] = "waiting"
    /\ LET timestamp == getCurrentTimestamp(config[i], now) IN
       IF StillWaiting(timestamp, currentTimestamp[i])
       THEN UNCHANGED <<sequence, lastTimestamp, pc, ev, run, marked, watch>>
       ELSE Finish(i, <<currentTimestamp[i]>>, timestamp, sequence[i])
    /\ UNCHANGED <<now, status, config, currentTimestamp, watch>>

\* -------------------------------------------------- the specifications
\* One generator: every configuration is tried, then generate() runs against
\* a clock that moves freely.
Init == InitOver({1}, "calls")

Next ==
    \/ ClockForward(MaxNow)
    \/ ClockBackward
    \/ \E i \in DOMAIN status : status[i] = "new" /\ \E raw \in RawConfigs : Construct(i, raw)
    \/ \E i \in DOMAIN status : GenerateCall(i)
    \/ \E i \in DOMAIN status : Poll(i)

Spec == Init /\ [][Next]_vars

\* One generator and an observer that remembers one of the IDs it returned.
\* The configurations are the valid bit allocations, each with the largest
\* worker and process IDs it admits and the latest epoch.
MarkConfigs ==
    {[epoch |-> {MaxEpoch}, workerId |-> MaxOf(b.workerId),
      processId |-> {MaxOf(b.processId)}, bits |-> {b}]
     : b \in {a \in BitChoices :
                 /\ a.workerId >= 0 /\ a.processId >= 0 /\ a.sequence >= 0
                 /\ a.workerId + a.processId + a.sequence \in 1 .. BitBudget}}

NextMark ==
    \/ ClockForward(MaxNow)
    \/ ClockBackward
    \/ \E i \in DOMAIN status : status[i] = "new" /\ \E raw \in MarkConfigs : Construct(i, raw)
    \/ \E i \in DOMAIN status : GenerateCall(i)
    \/ \E i \in DOMAIN status : Poll(i)

SpecMark == InitOver({1}, "history") /\ [][NextMark]_vars

\* compose and decompose as functions of their arguments, on one generator of
\* every valid configuration.
ValidConfigs == {raw \in RawConfigs : validateConfig(resolveConfig(raw), StartTime) = "ok"}

\* Faulty variant of Compose: the sequence argument is kept in the instance.
Compose_StoresSequence(i, t, w, p, s) ==
    /\ status[i] = "ready"
    /\ pc[i] = "idle"
    /\ ev' = [inst |-> i, op |-> "compose", args |-> <<t, w, p, s>>,
              res |-> compose(config[i], t, w, p, s)]
    /\ sequence' = [sequence EXCEPT ![i] = s]
    /\ UNCHANGED <<now, status, config, lastTimestamp, pc, currentTimestamp, run, marked, watch>>

Compose(i, t, w, p, s) ==
    /\ status[i] = "ready"
    /\ pc[i] = "idle"
    /\ ev' = [inst |-> i, op |-> "compose", args |-> <<t, w, p, s>>,
              res |-> compose(config[i], t, w, p, s)]
    /\ UNCHANGED <<now, status, config, sequence, lastTimestamp, pc, currentTimestamp, run, marked, watch>>

Decompose(i, x) ==
    /\ status[i] = "ready"
    /\ pc[i] = "idle"
    /\ ev' = [inst |-> i, op |-> "decompose", args |-> x, res |-> decompose(config[i], x)]
    /\ UNCHANGED <<now, status, config, sequence, lastTimestamp, pc, currentTimestamp, run, marked, watch>>

\* Arguments from below each legal range to above it.
TimestampArgs(c) == -1 .. c.epoch + maxTimestamp + 1
IdArgs ==
    {[typeof |-> "bigint", val |-> v]
     : v \in -((MaxEpoch + 1) * (2 ^ BitBudget)) .. 2 ^ (TimestampBits + BitBudget + 1)}
    \cup {[typeof |-> t, val |-> 0] : t \in {"number", "string", "undefined", "object"}}

\* The caller of this specification constructs a generator and then either
\* decomposes a value, or composes an ID and decomposes what compose returned.
Fresh == ev.op = "constructor"

NextPure ==
    \/ \E i \in DOMAIN status : status[i] = "new" /\ \E raw \in ValidConfigs : Construct(i, raw)
    \/ \E i \in DOMAIN status :
          /\ Fresh
          /\ \E t \in TimestampArgs(config[i]),
                w \in -1 .. maxWorkerOf(config[i]) + 1,
                p \in -1 .. maxProcessOf(config[i]) + 1,
                s \in -1 .. maxSequenceOf(config[i]) + 1 : Compose(i, t, w, p, s)
    \/ \E i \in DOMAIN status : Fresh /\ \E x \in IdArgs : Decompose(i, x)
    \/ \E i \in DOMAIN status :
          /\ ev.op = "compose"
          /\ ev.res.kind = "id"
          /\ Decompose(i, [typeof |-> "bigint", val |-> ev.res.id])

SpecPure == InitOver({1}, "calls") /\ [][NextPure]_vars

\* Two generators with the same bit allocation and different (workerId,
\* processId) pairs, constructed one after the other and called in any
\* interleaving, and an observer that remembers one returned ID.  Both fields
\* and the sequence have one bit.  The generators being interchangeable, the
\* second is the one with the larger pair; the first has the latest epoch, the
\* second either epoch.  The clock runs to PairHorizon.
PairBits == [workerId |-> 1, processId |-> 1, sequence |-> 1]
PairConfigs(i) ==
    [epoch : IF i = 1 THEN {{MaxEpoch}} ELSE {{0}, {MaxEpoch}},
     workerId : 0 .. 1, processId : {{0}, {1}}, bits : {{PairBits}}]
PairHorizon == MaxEpoch + 2

Pair(c) == <<c.workerId, c.processId>>
Larger(a, b) == a[1] > b[1] \/ (a[1] = b[1] /\ a[2] > b[2])

Distinct(i, raw) ==
    \A j \in DOMAIN status \ {i} :
        status[j] = "ready" =>
            /\ config[j].bits = resolveConfig(raw).bits
            /\ Pair(config[j]) # Pair(resolveConfig(raw))
            /\ Larger(Pair(resolveConfig(raw)), Pair(config[j]))

NextTwo ==
    \/ ClockForward(PairHorizon)
    \/ ClockBackward
    \/ \E i \in DOMAIN status :
          /\ status[i] = "new"
          /\ \A j \in DOMAIN status : j < i => status[j] = "ready"
          /\ \E raw \in PairConfigs(i) : Distinct(i, raw) /\ Construct(i, raw)
    \/ \E i \in DOMAIN status : GenerateCall(i)
    \/ \E i \in DOMAIN status : Poll(i)

SpecTwo == InitOver({1, 2}, "ids") /\ [][NextTwo]_vars

\* One generator whose caller mixes generate() with compose and decompose:
\* it composes around the current time, decomposes what generate or compose
\* returned, and decomposes values that are no IDs.  The configurations are
\* those of MarkConfigs and the ones that leave every optional field out.
DefaultConfigs ==
    [epoch : {{}}, workerId : -1 .. MaxOf(DEFAULT_BITS.workerId) + 1,
     processId : {{}}, bits : {{}}]
MixedConfigs == MarkConfigs \cup DefaultConfigs

NextMixed ==
    \/ ClockForward(MaxNow)
    \/ ClockBackward
    \/ \E i \in DOMAIN status : status[i] = "new" /\ \E raw \in MixedConfigs : Construct(i, raw)
    \/ \E i \in DOMAIN status : GenerateCall(i)
    \/ \E i \in DOMAIN status : Poll(i)
    \/ \E i \in DOMAIN status :
          \E t \in {-1, now}, s \in {0, maxSequenceOf(config[i]) + 1} :
              Compose(i, t, config[i].workerId, config[i].processId, s)
    \/ \E i \in DOMAIN status :
          /\ ev.res.kind = "id"
          /\ Decompose(i, [typeof |-> "bigint", val |-> ev.res.id])
    \/ \E i \in DOMAIN status : Decompose(i, [typeof |-> "string", val |-> 0])
    \/ \E i \in DOMAIN status :
          /\ ev.op = "decompose" /\ ev.res.kind = "components"
          /\ Compose(i, ev.res.timestamp, ev.res.workerId, ev.res.processId, ev.res.sequence)

SpecMixed == InitOver({1}, "calls") /\ [][NextMixed]_vars

\* One generator with a small allocation, whose polling loop keeps reading
\* the clock and whose clock, whenever a call polls, reads a later millisecond
\* again and again: the loop is a tight one, so it reads such a millisecond.
LiveSet == {1}
LiveConfigs ==
    {raw \in MarkConfigs :
        LET b == Given(raw.bits) IN b.workerId + b.processId + b.sequence <= 2}

NextLive ==
    \/ ClockForward(MaxNow)
    \/ ClockBackward
    \/ \E i \in DOMAIN status : status[i] = "new" /\ \E raw \in LiveConfigs : Construct(i, raw)
    \/ \E i \in DOMAIN status : GenerateCall(i)
    \/ \E i \in DOMAIN status : Poll(i)

ClockReadsLater ==
    \A i \in LiveSet :
        []<>(pc[i] = "waiting" => now - config[i].epoch > currentTimestamp[i])

SpecLive ==
    /\ InitOver(LiveSet, "calls")
    /\ [][NextLive]_vars
    /\ \A i \in LiveSet : SF_vars(Poll(i))
    /\ ClockReadsLater

\* One generator whose clock moves freely until, between two calls, it
\* freezes: from then on every reading is the same.
Freeze ==
    /\ watch = "calls"
    /\ Observed
    /\ \A i \in DOMAIN status : pc[i] = "idle"
    /\ watch' = "frozen"
    /\ UNCHANGED <<now, status, config, sequence, lastTimestamp, pc, currentTimestamp, ev, run, marked>>

NextFrozen ==
    \/ watch = "calls" /\ ClockForward(MaxNow)
    \/ watch = "calls" /\ ClockBackward
    \/ Freeze
    \/ \E i \in DOMAIN status : status[i] = "new" /\ \E raw \in LiveConfigs : Construct(i, raw)
    \/ \E i \in DOMAIN status : GenerateCall(i)
    \/ \E i \in DOMAIN status : Poll(i)

SpecFrozen == InitOver({1}, "calls") /\ [][NextFrozen]_vars

\* The clock regressing while a call polls in waitForNextMillisecond: watch
\* records that it has ("regressed"), and the run is followed until the
\* polling call completes; no further call begins after that.  Between
\* calls the clock moves both ways.
RegressWhilePolling ==
    /\ \E i \in DOMAIN status : pc[i] = "waiting"
    /\ now > 0
    /\ now' = now - 1
    /\ watch' = "regressed"
    /\ UNCHANGED <<status, config, sequence, lastTimestamp, pc, currentTimestamp, ev, run, marked>>

NextRegress ==
    \/ ClockForward(MaxNow)
    \/ (watch = "calls" /\ \A i \in DOMAIN status : pc[i] = "idle") /\ ClockBackward
    \/ RegressWhilePolling
    \/ \E i \in DOMAIN status : status[i] = "new" /\ \E raw \in MarkConfigs : Construct(i, raw)
    \/ \E i \in DOMAIN status : watch = "calls" /\ GenerateCall(i)
    \/ \E i \in DOMAIN status : Poll(i)

SpecRegress == InitOver({1}, "calls") /\ [][NextRegress]_vars

\* Two instances of one configuration fed the same clock readings: instance
\* 1 takes a step of generate(), then instance 2 takes its step at the same
\* reading, and only then may the clock move or instance 1 step again.  It
\* is instance 2's turn when instance 1 has completed a call or changed its
\* state and instance 2 has not followed yet.
TwinState(i) == <<lastTimestamp[i], sequence[i], pc[i], currentTimestamp[i]>>
TwinReady == \A i \in DOMAIN status : status[i] = "ready"
TwinTurn ==
    IF TwinState(1) = TwinState(2) /\ ~(ev.op = "generate" /\ ev.inst = 1) THEN 1 ELSE 2

NextTwin ==
    \/ (TwinReady /\ TwinTurn = 1) /\ ClockForward(MaxNow)
    \/ (TwinReady /\ TwinTurn = 1) /\ ClockBackward
    \/ status[1] = "new" /\ \E raw \in MarkConfigs : Construct(1, raw)
    \/ /\ status[1] = "ready" /\ status[2] = "new"
       /\ \E raw \in MarkConfigs : resolveConfig(raw) = config[1] /\ Construct(2, raw)
    \/ \E i \in DOMAIN status : (TwinReady /\ TwinTurn = i) /\ GenerateCall(i)
    \/ \E i \in DOMAIN status : (TwinReady /\ TwinTurn = i) /\ Poll(i)

SpecTwin == InitOver({1, 2}, "calls") /\ [][NextTwin]_vars

\* Two callers inside generate() of ONE instance with nothing to serialize
\* them: each statement of generate is a step of its own, and the steps of
\* the two calls interleave.  In this specification the index k ranges over
\* the callers; the instance is instance 1, pc[k] is the statement caller k
\* stands at and currentTimestamp[k] its local variable timestamp.  run
\* becomes 1 when a call begins while another is under way.  The clock only
\* moves forward.
Callers == {1, 2}
RaceConfigs ==
    {raw \in LiveConfigs :
        LET b == Given(raw.bits) IN b.sequence >= 1 /\ b.workerId = 0 /\ b.processId = 0}
RaceHorizon == StartTime + maxTimestamp + 1

RaceComplete(k, res) ==
    /\ ev' = [inst |-> k, op |-> "generate", args |-> <<>>, res |-> res]
    /\ pc' = [pc EXCEPT ![k] = "idle"]
    /\ marked' \in Marks(k, res)

\* let timestamp = this.getCurrentTimestamp()
RaceRead(k) ==
    /\ status[1] = "ready"
    /\ pc[k] = "idle"
    /\ pc' = [pc EXCEPT ![k] = "read"]
    /\ currentTimestamp' = [currentTimestamp EXCEPT ![k] = getCurrentTimestamp(config[1], now)]
    /\ run' = IF \E j \in Callers \ {k} : pc[j] # "idle" THEN 1 ELSE run
    /\ UNCHANGED <<now, status, config, sequence, lastTimestamp, ev, marked, watch>>

\* if (timestamp < this.lastTimestamp) throw
RaceCheckBackwards(k) ==
    /\ pc[k] = "read"
    /\ IF ClockMovedBackwards(currentTimestamp[k], lastTimestamp[1])
       THEN RaceComplete(k, Thrown("ClockBackwardsError", "Clock moved backwards"))
       ELSE pc' = [pc EXCEPT ![k] = "checked"] /\ UNCHANGED <<ev, marked>>
    /\ UNCHANGED <<now, status, config, sequence, lastTimestamp, currentTimestamp, run, watch>>

\* if (timestamp === this.lastTimestamp)
RaceCompare(k) ==
    /\ pc[k] = "checked"
    /\ pc' = [pc EXCEPT ![k] = IF currentTimestamp[k] = lastTimestamp[1] THEN "same" ELSE "newer"]
    /\ UNCHANGED <<now, status, config, sequence, lastTimestamp, currentTimestamp, ev, run, marked, watch>>

\* this.sequence = (this.sequence + 1) & this.maxSequence, or this.sequence = 0
RaceWriteSequence(k) ==
    /\ pc[k] \in {"same", "newer"}
    /\ sequence' = [sequence EXCEPT ![1] =
                       IF pc[k] = "same" THEN NextSequence(sequence[1], maxSequenceOf(config[1]))
                       ELSE 0]
    /\ pc' = [pc EXCEPT ![k] = IF pc[k] = "same" THEN "incremented" ELSE "store"]
    /\ UNCHANGED <<now, status, config, lastTimestamp, currentTimestamp, ev, run, marked, watch>>

\* if (this.sequence === 0) timestamp = this.waitForNextMillisecond(timestamp)
RaceTestOverflow(k) ==
    /\ pc[k] = "incremented"
    /\ pc' = [pc EXCEPT ![k] = IF Overflowed(sequence[1]) THEN "waiting" ELSE "store"]
    /\ UNCHANGED <<now, status, config, sequence, lastTimestamp, currentTimestamp, ev, run, marked, watch>>

\* One reading of the loop of waitForNextMillisecond.
RacePoll(k) ==
    /\ pc[k] = "waiting"
    /\ LET timestamp == getCurrentTimestamp(config[1], now) IN
       IF StillWaiting(timestamp, currentTimestamp[k])
       THEN UNCHANGED <<pc, currentTimestamp>>
       ELSE /\ currentTimestamp' = [currentTimestamp EXCEPT ![k] = timestamp]
            /\ pc' = [pc EXCEPT ![k] = "store"]
    /\ UNCHANGED <<now, status, config, sequence, lastTimestamp, ev, run, marked, watch>>

\* this.lastTimestamp = timestamp
RaceStore(k) ==
    /\ pc[k] = "store"
    /\ lastTimestamp' = [lastTimestamp EXCEPT ![1] = currentTimestamp[k]]
    /\ pc' = [pc EXCEPT ![k] = "pack"]
    /\ UNCHANGED <<now, status, config, sequence, currentTimestamp, ev, run, marked, watch>>

\* The ceiling check and return this.composeId(timestamp, ..., this.sequence)
RacePack(k) ==
    /\ pc[k] = "pack"
    /\ RaceComplete(k, IF Exhausted(currentTimestamp[k])
                       THEN Thrown("TimestampExhaustedError", "Maximum timestamp exceeded")
                       ELSE Returned(composeId(config[1], currentTimestamp[k], config[1].workerId,
                                               config[1].processId, sequence[1])))
    /\ UNCHANGED <<now, status, config, sequence, lastTimestamp, currentTimestamp, run, watch>>

NextRace ==
    \/ ClockForward(RaceHorizon)
    \/ status[1] = "new" /\ \E raw \in RaceConfigs : Construct(1, raw)
    \/ \E k \in Callers : RaceRead(k)
    \/ \E k \in Callers : RaceCheckBackwards(k)
    \/ \E k \in Callers : RaceCompare(k)
    \/ \E k \in Callers : RaceWriteSequence(k)
    \/ \E k \in Callers : RaceTestOverflow(k)
    \/ \E k \in Callers : RacePoll(k)
    \/ \E k \in Callers : RaceStore(k)
    \/ \E k \in Callers : RacePack(k)

SpecRace == InitOver(Callers, "ids") /\ [][NextRace]_vars

\* ================================================================ claims
\* A step of a generate() call on i, and one that completes the call.
GenerateStep(i) == GenerateCall(i) \/ Poll(i)
Completes(i) == GenerateStep(i) /\ pc'[i] = "idle"

\* The fields an ID carries, read off arithmetically.
TimestampField(c, id) == id \div (2 ^ (c.bits.sequence + c.bits.workerId + c.bits.processId))
SequenceField(c, id) == id % (2 ^ c.bits.sequence)

\* C1: of two successive generate() calls on one instance that both return an
\* ID, with no backward move of the clock between them, the second returns the
\* greater ID.
C1_SuccessiveIdsIncrease ==
    [][\A i \in DOMAIN status :
          (Completes(i) /\ run >= 1 /\ ev.inst = i /\ ev'.res.kind = "id")
              => ev'.res.id > ev.res.id]_vars

\* Two calls in succession returned IDs with the clock never moving backwards,
\* the second of them in the same millisecond as the first.
C1_Witness ==
    /\ run = 2
    /\ ev.op = "generate" /\ ev.res.kind = "id"
    /\ sequence[1] >= 1

\* C2: the IDs one instance returns while the clock never moves backwards are
\* pairwise distinct: an ID returned after the remembered one differs from it.
C2_IdsPairwiseDistinct ==
    [][\A i \in DOMAIN status :
          (Completes(i) /\ marked.inst = i /\ marked.track /\ ~marked.back
             /\ ev'.res.kind = "id")
              => ev'.res.id # marked.id]_vars

\* The first ID of millisecond 0 is remembered and, the clock never having
\* moved backwards, the instance has gone on to return the last ID of the last
\* millisecond: more than maxSequence + 1 calls, across a rollover.
C2_Witness ==
    /\ marked.inst = 1 /\ marked.track /\ ~marked.back /\ ~marked.failed
    /\ marked.id = composeId(config[1], 0, config[1].workerId, config[1].processId, 0)
    /\ ev.op = "generate" /\ ev.res.kind = "id" /\ ev.res.id # marked.id
    /\ maxSequenceOf(config[1]) >= 1
    /\ lastTimestamp[1] = maxTimestamp
    /\ sequence[1] = maxSequenceOf(config[1])

\* C3: decompose(compose(timestamp, workerId, processId, sequence)) returns
\* exactly the four arguments, for every tuple compose accepts.
C3_RoundTrip ==
    [][\A i \in DOMAIN status :
          (ev.op = "compose" /\ ev.res.kind = "id"
             /\ Decompose(i, [typeof |-> "bigint", val |-> ev.res.id]))
              => ev'.res = Components(ev.args[1], ev.args[2], ev.args[3], ev.args[4])]_vars

\* C4: a generate() that reads a time below lastTimestamp throws
\* ClockBackwardsError, returns no ID and leaves lastTimestamp and sequence
\* as they were.
C4_ClockBackwardsLeavesState ==
    [][\A i \in DOMAIN status :
          (GenerateCall(i) /\ now - config[i].epoch < lastTimestamp[i])
              => /\ ev'.op = "generate" /\ ev'.inst = i
                 /\ ev'.res.kind = "ClockBackwardsError"
                 /\ lastTimestamp'[i] = lastTimestamp[i]
                 /\ sequence'[i] = sequence[i]
                 /\ pc'[i] = "idle"]_vars

\* A call has thrown ClockBackwardsError on an instance that had already
\* issued several IDs in a millisecond.
C4_Witness ==
    /\ ev.op = "generate" /\ ev.res.kind = "ClockBackwardsError"
    /\ lastTimestamp[1] >= 1
    /\ sequence[1] >= 1

\* The clock reads lastTimestamp or later as a generate() call on i begins, or
\* the call began so and is polling.
Restored(i) == pc[i] = "waiting" \/ now - config[i].epoch >= lastTimestamp[i]

\* C5 as stated: after a ClockBackwardsError, a generate() made once the clock
\* reads lastTimestamp or later returns an ID greater than every ID returned
\* before the failure.
C5_RecoversWithGreaterId ==
    [][\A i \in DOMAIN status :
          (Completes(i) /\ marked.inst = i /\ marked.failed /\ Restored(i))
              => (ev'.res.kind = "id" /\ ev'.res.id > marked.id)]_vars

\* C5, amended: such a call returns an ID greater than every ID returned
\* before the failure, unless the time it adopts exceeds maxTimestamp, and then
\* it throws TimestampExhaustedError; it never throws ClockBackwardsError.
C5_RecoversUnlessExhausted ==
    [][\A i \in DOMAIN status :
          (Completes(i) /\ marked.inst = i /\ marked.failed /\ Restored(i))
              => IF lastTimestamp'[i] > maxTimestamp
                 THEN ev'.res.kind = "TimestampExhaustedError"
                 ELSE ev'.res.kind = "id" /\ ev'.res.id > marked.id]_vars

\* After the remembered ID a call failed with ClockBackwardsError, and a later
\* call has returned a greater ID.
C5_Witness ==
    /\ marked.inst = 1 /\ marked.failed
    /\ ev.op = "generate" /\ ev.inst = 1 /\ ev.res.kind = "id"
    /\ ev.res.id > marked.id

\* The parts of C6 that do not depend on what the call finally returns: a call
\* in the millisecond of lastTimestamp whose increment wraps the sequence to 0
\* returns nothing and polls; the call leaves the loop only with a reading
\* past that millisecond, which it adopts with sequence 0.
C6_Polling(i) ==
    /\ (GenerateCall(i) /\ now - config[i].epoch = lastTimestamp[i]
          /\ (sequence[i] + 1) % (maxSequenceOf(config[i]) + 1) = 0)
           => /\ pc'[i] = "waiting"
              /\ currentTimestamp'[i] = lastTimestamp[i]
              /\ ev' = ev
              /\ lastTimestamp'[i] = lastTimestamp[i]
    /\ (Poll(i) /\ pc'[i] = "idle")
           => /\ lastTimestamp'[i] = now - config[i].epoch
              /\ lastTimestamp'[i] > currentTimestamp[i]
              /\ sequence'[i] = 0
              /\ ev'.op = "generate" /\ ev'.inst = i

C6_CarriesLaterTimestamp(i) ==
    /\ ev'.res.kind = "id"
    /\ TimestampField(config[i], ev'.res.id) = lastTimestamp'[i]
    /\ SequenceField(config[i], ev'.res.id) = 0

\* C6 as stated: a call that finds the millisecond exhausted issues no ID for
\* it, polls until the clock is past it and returns an ID carrying the later
\* timestamp with sequence 0.
C6_WaitsThenReturnsId ==
    [][\A i \in DOMAIN status :
          /\ C6_Polling(i)
          /\ (Poll(i) /\ pc'[i] = "idle") => C6_CarriesLaterTimestamp(i)]_vars

\* C6, amended: it returns that ID unless the later time exceeds maxTimestamp,
\* and then it throws TimestampExhaustedError.
C6_WaitsThenReturnsIdUnlessExhausted ==
    [][\A i \in DOMAIN status :
          /\ C6_Polling(i)
          /\ (Poll(i) /\ pc'[i] = "idle")
                => IF lastTimestamp'[i] > maxTimestamp
                   THEN ev'.res.kind = "TimestampExhaustedError"
                   ELSE C6_CarriesLaterTimestamp(i)]_vars

\* A call that polled has returned an ID.
C6_Witness ==
    /\ ev.op = "generate" /\ ev.res.kind = "id"
    /\ Len(ev.args) = 1
    /\ maxSequenceOf(config[1]) >= 1

\* C7: two instances with the same bit allocation and different (workerId,
\* processId) pairs never return the same ID, whatever the interleaving and
\* the clock.
C7_InstancesNeverCollide ==
    (marked.inst # 0 /\ ev.op = "generate" /\ ev.res.kind = "id" /\ ev.inst # marked.inst)
        => ev.res.id # marked.id

\* The two instances, with one epoch, have returned IDs of the same
\* millisecond and the same sequence.
C7_Witness ==
    /\ marked.inst # 0 /\ ev.op = "generate" /\ ev.res.kind = "id" /\ ev.inst # marked.inst
    /\ config[1].epoch = config[2].epoch
    /\ TimestampField(config[1], ev.res.id) = TimestampField(config[1], marked.id)
    /\ SequenceField(config[1], ev.res.id) = SequenceField(config[1], marked.id)

\* C8: every ID generate() or compose() returns is at least 0 and below
\* 2^63, here 2^(1 + TimestampBits + BitBudget - 1): the top bit is 0.
C8_TopBitZero ==
    (ev.op \in {"generate", "compose"} /\ ev.res.kind = "id")
        => (ev.res.id >= 0 /\ ev.res.id < 2 ^ (TimestampBits + BitBudget))

\* The conditions of C9, on the resolved configuration and the time of the call.
ValidConfiguration(c, t) ==
    /\ c.epoch <= t
    /\ c.bits.workerId >= 0 /\ c.bits.processId >= 0 /\ c.bits.sequence >= 0
    /\ ~(c.bits.workerId = 0 /\ c.bits.processId = 0 /\ c.bits.sequence = 0)
    /\ c.bits.workerId + c.bits.processId + c.bits.sequence <= BitBudget
    /\ 0 <= c.workerId /\ c.workerId <= 2 ^ c.bits.workerId - 1
    /\ 0 <= c.processId /\ c.processId <= 2 ^ c.bits.processId - 1

\* C9: construction succeeds exactly when the configuration meets every
\* condition; otherwise it throws ConfigurationError and no generator exists.
C9_ConstructionIff ==
    [][\A i \in DOMAIN status :
          /\ (status[i] = "new" /\ status'[i] # "new")
                => /\ (status'[i] = "ready") <=> ValidConfiguration(config'[i], now)
                   /\ status'[i] # "ready"
                         => (status'[i] = "failed" /\ ev'.res.kind = "ConfigurationError")
          /\ status[i] = "failed"
                => (status'[i] = "failed" /\ lastTimestamp'[i] = lastTimestamp[i]
                      /\ sequence'[i] = sequence[i] /\ ev' = ev)]_vars

\* A generator was constructed at both boundaries: the widths use the whole
\* budget and workerId is the largest its width holds.
C9_Witness ==
    /\ status[1] = "ready"
    /\ config[1].bits.workerId + config[1].bits.processId + config[1].bits.sequence = BitBudget
    /\ config[1].bits.workerId >= 1
    /\ config[1].workerId = 2 ^ config[1].bits.workerId - 1

\* C10: compose throws ConfigurationError exactly when an argument is out of
\* its range or timestamp - epoch exceeds 2^41 - 1 (here 2^TimestampBits - 1),
\* and returns an ID for every other argument tuple.
C10_ComposeRejectsExactly ==
    ev.op = "compose" =>
        LET c == config[ev.inst]
            rejected ==
                \/ ev.args[1] < 0
                \/ ev.args[2] < 0 \/ ev.args[2] > maxWorkerOf(c)
                \/ ev.args[3] < 0 \/ ev.args[3] > maxProcessOf(c)
                \/ ev.args[4] < 0 \/ ev.args[4] > maxSequenceOf(c)
                \/ ev.args[1] - c.epoch > 2 ^ TimestampBits - 1
        IN IF rejected THEN ev.res.kind = "ConfigurationError" ELSE ev.res.kind = "id"

\* compose has rejected a tuple whose only fault is a timestamp one past the
\* ceiling, each other argument being the largest of its range.
C10_Witness ==
    /\ ev.op = "compose" /\ ev.res.kind = "ConfigurationError"
    /\ ev.args[1] - config[1].epoch = 2 ^ TimestampBits
    /\ ev.args[2] = maxWorkerOf(config[1])
    /\ ev.args[3] = maxProcessOf(config[1])
    /\ ev.args[4] = maxSequenceOf(config[1])

\* C11: for every accepted tuple compose returns (timestamp - epoch) *
\* 2^(sequenceBits + workerBits + processBits) + processId * 2^(sequenceBits +
\* workerBits) + workerId * 2^sequenceBits + sequence.
C11_PackingFormula ==
    (ev.op = "compose" /\ ev.res.kind = "id") =>
        LET b == config[ev.inst].bits IN
        ev.res.id = (ev.args[1] - config[ev.inst].epoch) * 2 ^ (b.sequence + b.workerId + b.processId)
                    + ev.args[3] * 2 ^ (b.sequence + b.workerId)
                    + ev.args[2] * 2 ^ b.sequence
                    + ev.args[4]

\* compose has packed four non-zero fields, each the largest of its range.
C11_Witness ==
    /\ ev.op = "compose" /\ ev.res.kind = "id"
    /\ ev.args[1] - config[1].epoch = 2 ^ TimestampBits - 1
    /\ ev.args[2] = maxWorkerOf(config[1]) /\ ev.args[2] >= 1
    /\ ev.args[3] = maxProcessOf(config[1]) /\ ev.args[3] >= 1
    /\ ev.args[4] = maxSequenceOf(config[1]) /\ ev.args[4] >= 1

C13_LowFields(c, id, res) ==
    /\ res.sequence = id % (2 ^ c.bits.sequence)
    /\ res.workerId = (id \div (2 ^ c.bits.sequence)) % (2 ^ c.bits.workerId)
    /\ res.processId = (id \div (2 ^ (c.bits.sequence + c.bits.workerId))) % (2 ^ c.bits.processId)
    /\ res.sequence \in 0 .. maxSequenceOf(c)
    /\ res.workerId \in 0 .. maxWorkerOf(c)
    /\ res.processId \in 0 .. maxProcessOf(c)

\* The timestamp field of an id, before the epoch is added.
C13_Shifted(c, id) == id \div (2 ^ (c.bits.sequence + c.bits.workerId + c.bits.processId))

Drift(i) == pc[i] = "idle" /\ now - config[i].epoch < lastTimestamp[i]

\* C15: a generate() call that adopts an epoch-relative time above 2^41 - 1
\* (here 2^TimestampBits - 1) throws TimestampExhaustedError and returns no
\* ID; one that adopts a time of at most that does not throw it.  The time a
\* call adopts is the clock reading it completes with.
C15_ExhaustedExactlyAboveCeiling ==
    [][\A i \in DOMAIN status :
          (Completes(i) /\ ~Drift(i))
              => /\ lastTimestamp'[i] = now - config[i].epoch
                 /\ (ev'.res.kind = "TimestampExhaustedError")
                        <=> (now - config[i].epoch > 2 ^ TimestampBits - 1)
                 /\ ev'.res.kind \in {"TimestampExhaustedError", "id"}]_vars

\* A call has thrown TimestampExhaustedError at the first millisecond past
\* the ceiling.
C15_Witness ==
    /\ ev.op = "generate" /\ ev.res.kind = "TimestampExhaustedError"
    /\ lastTimestamp[1] = 2 ^ TimestampBits

\* An instance has thrown TimestampExhaustedError exactly when its
\* lastTimestamp is above the ceiling, and lastTimestamp never decreases.
C16_Exhausted(i) ==
    /\ Completes(i) /\ ev'.res.kind = "TimestampExhaustedError"
           => lastTimestamp'[i] > 2 ^ TimestampBits - 1
    /\ Completes(i) /\ ev'.res.kind # "TimestampExhaustedError"
           => lastTimestamp'[i] = lastTimestamp[i] \/ lastTimestamp'[i] <= 2 ^ TimestampBits - 1
    /\ lastTimestamp'[i] >= lastTimestamp[i]

\* C16 as stated: once a generate() call has thrown TimestampExhaustedError,
\* every later generate() call on the instance throws it too.
C16_ExhaustionTerminal ==
    [][\A i \in DOMAIN status :
          /\ C16_Exhausted(i)
          /\ (Completes(i) /\ lastTimestamp[i] > 2 ^ TimestampBits - 1)
                => ev'.res.kind = "TimestampExhaustedError"]_vars

\* C16, amended: every later call fails and none returns an ID: with
\* ClockBackwardsError when it reads a time below lastTimestamp, with
\* TimestampExhaustedError otherwise.
C16_ExhaustionNeverReturnsId ==
    [][\A i \in DOMAIN status :
          /\ C16_Exhausted(i)
          /\ (Completes(i) /\ lastTimestamp[i] > 2 ^ TimestampBits - 1)
                => ev'.res.kind = IF Drift(i) THEN "ClockBackwardsError"
                                  ELSE "TimestampExhaustedError"]_vars

\* After a first TimestampExhaustedError a call in the same millisecond has
\* thrown it again.
C16_Witness ==
    /\ ev.op = "generate" /\ ev.res.kind = "TimestampExhaustedError"
    /\ lastTimestamp[1] > 2 ^ TimestampBits - 1
    /\ sequence[1] >= 1

\* C17: a generate() call that meets clock drift (a reading below
\* lastTimestamp) or sequence overflow throws no error and returns an ID.
C17_NoErrorOnDriftOrOverflow ==
    [][\A i \in DOMAIN status :
          (Completes(i) /\ (Drift(i) \/ pc[i] = "waiting"))
              => ev'.res.kind = "id"]_vars

\* C14: every ID generate() returns decomposes, on the same instance, to the
\* configured workerId and processId, a sequence in [0, maxSequence] and the
\* timestamp epoch + the time the call adopted: the ID is the packing of the
\* adopted time, the configured ids and the current sequence.
C14_GeneratedIdDecomposes ==
    [][\A i \in DOMAIN status :
          (ev.op = "generate" /\ ev.res.kind = "id"
             /\ Decompose(i, [typeof |-> "bigint", val |-> ev.res.id]))
              => /\ ev'.res = Components(lastTimestamp[i] + config[i].epoch, config[i].workerId,
                                         config[i].processId, sequence[i])
                 /\ sequence[i] \in 0 .. maxSequenceOf(config[i])]_vars

\* What a compose call returns, from its arguments and the configuration alone.
C18_ComposeResult(c, args, res) ==
    IF \/ args[1] < 0 \/ args[1] - c.epoch > 2 ^ TimestampBits - 1
       \/ args[2] < 0 \/ args[2] > maxWorkerOf(c)
       \/ args[3] < 0 \/ args[3] > maxProcessOf(c)
       \/ args[4] < 0 \/ args[4] > maxSequenceOf(c)
    THEN res.kind = "ConfigurationError"
    ELSE /\ res.kind = "id"
         /\ res.id = (args[1] - c.epoch) * 2 ^ (c.bits.sequence + c.bits.workerId + c.bits.processId)
                     + args[3] * 2 ^ (c.bits.sequence + c.bits.workerId)
                     + args[2] * 2 ^ c.bits.sequence + args[4]

\* What a generate() call that completes at once does, from lastTimestamp,
\* sequence, the configuration and the clock alone.
C18_GenerateResult(i) ==
    LET c == config[i]
        t == now - c.epoch
        seq == IF t = lastTimestamp[i] THEN sequence[i] + 1 ELSE 0
    IN IF t < lastTimestamp[i]
       THEN ev'.res.kind = "ClockBackwardsError"
       ELSE /\ sequence'[i] = seq /\ lastTimestamp'[i] = t
            /\ IF t > 2 ^ TimestampBits - 1
               THEN ev'.res.kind = "TimestampExhaustedError"
               ELSE /\ ev'.res.kind = "id"
                    /\ ev'.res.id = t * 2 ^ (c.bits.sequence + c.bits.workerId + c.bits.processId)
                                    + c.processId * 2 ^ (c.bits.sequence + c.bits.workerId)
                                    + c.workerId * 2 ^ c.bits.sequence + seq

\* C18: compose and decompose leave lastTimestamp and sequence (and the rest
\* of the instance) as they were, whether they return or throw; what
\* generate() does and returns is fixed by the instance state and the clock,
\* with or without such calls before it; and what compose returns is fixed by
\* its arguments and the configuration.
C18_ComposeDecomposeFrame ==
    [][\A i \in DOMAIN status :
          /\ (ev'.inst = i /\ ev'.op \in {"compose", "decompose"} /\ ev' # ev)
                => UNCHANGED <<sequence, lastTimestamp, config, status, pc, currentTimestamp, now>>
          /\ (ev'.inst = i /\ ev'.op = "compose" /\ ev' # ev)
                => C18_ComposeResult(config[i], ev'.args, ev'.res)
          /\ (GenerateCall(i) /\ pc'[i] = "idle") => C18_GenerateResult(i)]_vars

\* compose has thrown on an instance in the middle of a millisecond, after a
\* generate() and before the next.
C18_Witness ==
    /\ ev.op = "compose" /\ ev.res.kind = "ConfigurationError"
    /\ sequence[1] >= 1
    /\ lastTimestamp[1] = now - config[1].epoch

\* The generator uses the default widths, process ID and epoch.
C19_Defaults(c) ==
    /\ c.bits = [workerId |-> BitBudget - 2, processId |-> 0, sequence |-> 2]
    /\ c.processId = 0
    /\ c.epoch = MaxEpoch

\* C19: a configuration that omits bits, processId and epoch gets worker
\* width 10, process width 0, sequence width 12 (here BitBudget - 2, 0 and 2),
\* processId 0 and epoch 1577836800000 (here MaxEpoch); its workerId is
\* accepted exactly from 0 to 2^workerBits - 1, and every ID it generates
\* decomposes to processId 0, a sequence of at most 2^sequenceBits - 1 and a
\* timestamp of at least the epoch.
C19_DefaultConfiguration ==
    [][\A i \in DOMAIN status :
          /\ \A w \in -1 .. 2 ^ (BitBudget - 2) :
                C19_Defaults(resolveConfig([epoch |-> {}, workerId |-> w, processId |-> {}, bits |-> {}]))
          /\ (status[i] = "new" /\ status'[i] # "new" /\ C19_Defaults(config'[i]))
                => (status'[i] = "ready"
                      <=> config'[i].workerId \in 0 .. 2 ^ (BitBudget - 2) - 1)
          /\ (C19_Defaults(config[i]) /\ ev.op = "generate" /\ ev.res.kind = "id"
                /\ Decompose(i, [typeof |-> "bigint", val |-> ev.res.id]))
                => /\ ev'.res.kind = "components"
                   /\ ev'.res.processId = 0
                   /\ ev'.res.sequence <= 2 ^ 2 - 1
                   /\ ev'.res.timestamp >= MaxEpoch]_vars

\* C20: in every reachable state of an instance, whatever calls were made
\* and however the clock moved, 0 <= sequence <= maxSequence.
C20_SequenceInRange ==
    \A i \in DOMAIN status :
        /\ status[i] = "ready" => sequence[i] \in 0 .. maxSequenceOf(config[i])
        /\ status[i] # "ready" => sequence[i] = 0

\* The sequence stands at maxSequence after a decompose, the clock having
\* moved backwards since the last ID.
C20_Witness ==
    /\ status[1] = "ready" /\ maxSequenceOf(config[1]) >= 1
    /\ sequence[1] = maxSequenceOf(config[1])
    /\ ev.op = "decompose"
    /\ now - config[1].epoch < lastTimestamp[1]

\* C21: the first ID returned for a newly adopted millisecond has sequence
\* 0; each further ID of the same millisecond has the previous sequence plus
\* 1; so two IDs of one timestamp differ in sequence, every sequence is in
\* 0 .. maxSequence, and one timestamp carries at most maxSequence + 1 IDs.
C21_SequencePerMillisecond ==
    [][\A i \in DOMAIN status :
          (Completes(i) /\ ev'.res.kind = "id")
              => LET c == config[i]
                     seq == SequenceField(c, ev'.res.id)
                 IN /\ TimestampField(c, ev'.res.id) = lastTimestamp'[i]
                    /\ lastTimestamp'[i] > lastTimestamp[i] => seq = 0
                    /\ lastTimestamp'[i] = lastTimestamp[i] => seq = sequence[i] + 1
                    /\ seq \in 0 .. 2 ^ c.bits.sequence - 1
                    /\ (marked.inst = i
                          /\ TimestampField(c, marked.id) = TimestampField(c, ev'.res.id))
                          => seq > SequenceField(c, marked.id)]_vars

\* The first and the last ID of one millisecond: the remembered one has
\* sequence 0, the latest one sequence maxSequence.
C21_Witness ==
    /\ marked.inst = 1 /\ ev.op = "generate" /\ ev.res.kind = "id"
    /\ maxSequenceOf(config[1]) >= 2
    /\ TimestampField(config[1], marked.id) = TimestampField(config[1], ev.res.id)
    /\ SequenceField(config[1], marked.id) = 0
    /\ SequenceField(config[1], ev.res.id) = maxSequenceOf(config[1])

\* C22: when the clock keeps reading a later millisecond, every generate()
\* call completes, a polling one too, and a completed call has returned an ID
\* or thrown ClockBackwardsError or TimestampExhaustedError, nothing else.
C22_GenerateCompletes ==
    /\ \A i \in LiveSet : (pc[i] = "waiting") ~> (pc[i] = "idle")
    /\ [](ev.op = "generate"
            => ev.res.kind \in {"id", "ClockBackwardsError", "TimestampExhaustedError"})

\* With no sequence bits, a second call in one millisecond has polled and
\* returned an ID.
C22_Witness ==
    /\ ev.op = "generate" /\ ev.res.kind = "id" /\ Len(ev.args) = 1
    /\ maxSequenceOf(config[1]) = 0
    /\ run = 2

\* The IDs an idle instance i has returned for the millisecond the clock
\* reads now: those of sequence 0 .. sequence when it adopted that millisecond
\* and returned its first ID, those of sequence 1 .. sequence when the
\* millisecond is the one before the epoch, none otherwise.
C23_Issued(i) ==
    LET t == now - config[i].epoch IN
    IF t # lastTimestamp[i] \/ t > 2 ^ TimestampBits - 1 THEN 0
    ELSE IF t >= 0 THEN sequence[i] + 1
    ELSE sequence[i]

C23_Blocks(i) ==
    /\ Completes(i) => ev'.res.kind = "id"
    /\ (GenerateCall(i) /\ C23_Issued(i) < maxSequenceOf(config[i]) + 1) => pc'[i] = "idle"
    /\ (GenerateCall(i) /\ pc'[i] = "waiting")
           => (C23_Issued(i) = maxSequenceOf(config[i]) + 1 /\ ev' = ev)
    /\ pc[i] = "waiting" => (pc'[i] = "waiting" /\ ev' = ev)

\* C23 as stated: with the clock frozen at one millisecond the instance
\* returns exactly maxSequence + 1 IDs for it, and the next generate() never
\* returns and throws nothing: it stays in the polling loop.
C23_FrozenClockBlocks ==
    [][\A i \in DOMAIN status : (watch = "frozen" /\ watch' = "frozen") => C23_Blocks(i)]_vars

\* C23, amended: so it is when the frozen millisecond t is not below
\* lastTimestamp and 0 <= t <= maxTimestamp.
C23_FrozenValidMillisecondBlocks ==
    [][\A i \in DOMAIN status :
          (watch = "frozen" /\ watch' = "frozen"
             /\ now - config[i].epoch >= lastTimestamp[i]
             /\ now - config[i].epoch \in 0 .. 2 ^ TimestampBits - 1)
              => C23_Blocks(i)]_vars

\* The clock is frozen, the instance has returned the ID of sequence
\* maxSequence for the frozen millisecond, and the next call polls.
C23_Witness ==
    /\ watch = "frozen" /\ pc[1] = "waiting"
    /\ ev.op = "generate" /\ ev.res.kind = "id"
    /\ maxSequenceOf(config[1]) >= 1
    /\ SequenceField(config[1], ev.res.id) = maxSequenceOf(config[1])
    /\ TimestampField(config[1], ev.res.id) = now - config[1].epoch
    /\ run = 2

\* A call of one caller has returned an ID after the remembered ID of the
\* other caller, and it is not greater.
C24_NotGreater ==
    /\ marked.inst # 0 /\ ev.inst # marked.inst
    /\ ev.op = "generate" /\ ev.res.kind = "id"
    /\ ev.res.id <= marked.id

C25_StatePerInstance ==
    [][\A i \in DOMAIN status :
          /\ (\/ sequence'[i] # sequence[i] \/ lastTimestamp'[i] # lastTimestamp[i]
              \/ pc'[i] # pc[i] \/ currentTimestamp'[i] # currentTimestamp[i]
              \/ status'[i] # status[i] \/ config'[i] # config[i]
              \/ (ev' # ev /\ ev'.inst = i)) =>
                \A j \in DOMAIN status \ {i} :
                    /\ sequence'[j] = sequence[j]
                    /\ lastTimestamp'[j] = lastTimestamp[j]
                    /\ currentTimestamp'[j] = currentTimestamp[j]
                    /\ pc'[j] = pc[j]
                    /\ config'[j] = config[j]
                    /\ status'[j] = status[j]
          /\ (/\ pc[i] = "idle" /\ pc'[i] = "idle"
              /\ ev'.inst = i /\ ev'.op = "generate"
              /\ (ev' # ev \/ sequence'[i] # sequence[i] \/ lastTimestamp'[i] # lastTimestamp[i])) =>
                C18_GenerateResult(i)]_vars

\* Both instances have issued IDs and stand at different timestamps and
\* different sequence numbers.
C25_Witness ==
    /\ status[1] = "ready" /\ status[2] = "ready"
    /\ lastTimestamp[1] >= 0 /\ lastTimestamp[2] >= 0
    /\ lastTimestamp[1] # lastTimestamp[2]
    /\ sequence[1] # sequence[2]
    /\ ev.op = "generate" /\ ev.res.kind = "id"

\* The constraints in the order of the claim: whether configuration c,
\* validated at time dateNow, violates the n-th, and the n-th diagnostic.
C26_Violates(c, n, dateNow) ==
    CASE n = 1 -> c.epoch > dateNow
      [] n = 2 -> c.bits.workerId < 0 \/ c.bits.processId < 0 \/ c.bits.sequence < 0
      [] n = 3 -> c.bits.workerId = 0 /\ c.bits.processId = 0 /\ c.bits.sequence = 0
      [] n = 4 -> c.bits.workerId + c.bits.processId + c.bits.sequence > BitBudget
      [] n = 5 -> c.workerId < 0
      [] n = 6 -> c.processId < 0
      [] n = 7 -> c.workerId > (IF c.bits.workerId > 0 THEN 2 ^ c.bits.workerId - 1 ELSE 0)
      [] n = 8 -> c.processId > (IF c.bits.processId > 0 THEN 2 ^ c.bits.processId - 1 ELSE 0)
C26_Diagnostic ==
    <<"Epoch cannot be in the future",
      "All bit allocations must be non-negative",
      "At least one bit allocation must be greater than 0",
      "Total bits exceed maximum available bits",
      "Worker ID cannot be negative",
      "Process ID cannot be negative",
      "Worker ID exceeds maximum value",
      "Process ID exceeds maximum value">>

\* C26: a construction that fails reports the diagnostic of the earliest
\* violated constraint in the order future epoch, negative width, all widths
\* zero, width sum over the budget (22, here BitBudget), negative workerId,
\* negative processId, workerId over its maximum, processId over its maximum.
C26_EarliestDiagnostic ==
    \A i \in DOMAIN status :
        status[i] = "failed" =>
            /\ ev.inst = i /\ ev.op = "constructor" /\ ev.res.kind = "ConfigurationError"
            /\ \E n \in 1 .. 8 :
                  /\ C26_Violates(config[i], n, now)
                  /\ \A m \in 1 .. n - 1 : ~C26_Violates(config[i], m, now)
                  /\ ev.res.msg = C26_Diagnostic[n]

\* A construction failed on the width sum although its workerId is negative
\* and its processId above its maximum as well.
C26_Witness ==
    /\ status[1] = "failed"
    /\ ev.res.msg = "Total bits exceed maximum available bits"
    /\ config[1].workerId < 0
    /\ config[1].processId > MaxOf(config[1].bits.processId)

\* C27: a generate() call that throws TimestampExhaustedError has written the
\* state first: lastTimestamp is the over-ceiling time it read and sequence
\* the number computed for that time (one more than before in the same
\* millisecond, 0 for a later one), so the state differs from the state before
\* the step; a call that throws ClockBackwardsError has written nothing.
C27_ExhaustedCallHasWritten ==
    [][\A i \in DOMAIN status :
          /\ (Completes(i) /\ ev'.res.kind = "TimestampExhaustedError")
                => /\ lastTimestamp'[i] = now - config[i].epoch
                   /\ lastTimestamp'[i] > 2 ^ TimestampBits - 1
                   /\ sequence'[i] = IF pc[i] = "idle" /\ now - config[i].epoch = lastTimestamp[i]
                                     THEN sequence[i] + 1 ELSE 0
                   /\ <<lastTimestamp'[i], sequence'[i]>> # <<lastTimestamp[i], sequence[i]>>
          /\ (Completes(i) /\ ev'.res.kind = "ClockBackwardsError")
                => <<lastTimestamp'[i], sequence'[i]>> = <<lastTimestamp[i], sequence[i]>>]_vars

\* A call that waited for the next millisecond read a time over the ceiling
\* and threw, leaving that time in lastTimestamp.
C27_Witness ==
    /\ ev.op = "generate" /\ ev.res.kind = "TimestampExhaustedError"
    /\ Len(ev.args) = 1
    /\ lastTimestamp[1] > 2 ^ TimestampBits - 1
    /\ lastTimestamp[1] > ev.args[1]
    /\ sequence[1] = 0

\* C28: whatever the clock does (forward jumps, repeats, regressions with
\* ClockBackwardsError calls in between), an ID an instance returns is greater
\* than every ID it returned before, and its timestamp field is not below
\* the timestamp of an earlier ID nor below lastTimestamp.
C28_ReturnedIdsIncrease ==
    [][\A i \in DOMAIN status :
          (Completes(i) /\ ev'.res.kind = "id")
              => /\ TimestampField(config[i], ev'.res.id) >= lastTimestamp[i]
                 /\ marked.inst = i
                       => /\ ev'.res.id > marked.id
                          /\ TimestampField(config[i], ev'.res.id)
                                >= TimestampField(config[i], marked.id)]_vars

\* After an ID the clock went back, a call failed with ClockBackwardsError,
\* the clock returned to the millisecond of the ID, and the next ID of that
\* same millisecond was returned.
C28_Witness ==
    /\ marked.inst = 1 /\ marked.back /\ marked.failed
    /\ ev.op = "generate" /\ ev.inst = 1 /\ ev.res.kind = "id"
    /\ ev.res.id > marked.id
    /\ TimestampField(config[1], ev.res.id) = TimestampField(config[1], marked.id)
    /\ lastTimestamp[1] >= 1

\* C29: lastTimestamp of an instance never decreases: every step, a call
\* that returns, throws or waits included, leaves it equal or greater.
C29_LastTimestampNeverDecreases ==
    [][\A i \in DOMAIN status : lastTimestamp'[i] >= lastTimestamp[i]]_vars

\* The clock fell from past the ceiling to before the epoch and the call
\* made there threw ClockBackwardsError, lastTimestamp staying past the ceiling.
C29_Witness ==
    /\ ev.op = "generate" /\ ev.res.kind = "ClockBackwardsError"
    /\ lastTimestamp[1] > maxTimestamp
    /\ now < config[1].epoch
    /\ pc[1] = "idle"

\* C30: on an instance that has adopted no time yet (lastTimestamp -1,
\* sequence 0) and whose clock reads the epoch or later, generate() does not
\* throw ClockBackwardsError: it completes at once, and an ID it returns has
\* sequence 0 and the time read.
C30_FirstCallOnFreshInstance ==
    [][\A i \in DOMAIN status :
          (GenerateCall(i) /\ lastTimestamp[i] = -1 /\ sequence[i] = 0
             /\ now >= config[i].epoch)
              => /\ ev'.inst = i /\ ev'.op = "generate" /\ pc'[i] = "idle"
                 /\ ev'.res.kind \in {"id", "TimestampExhaustedError"}
                 /\ ev'.res.kind = "id"
                       => /\ SequenceField(config[i], ev'.res.id) = 0
                          /\ TimestampField(config[i], ev'.res.id) = now - config[i].epoch
                          /\ sequence'[i] = 0]_vars

\* The first ID of an instance with a sequence field, issued in the
\* millisecond of the epoch, with sequence 0.
C30_Witness ==
    /\ ev.op = "generate" /\ ev.inst = 1 /\ ev.res.kind = "id"
    /\ run = 1
    /\ maxSequenceOf(config[1]) >= 1
    /\ now = config[1].epoch
    /\ lastTimestamp[1] = 0 /\ sequence[1] = 0
    /\ ev.res.id = composeId(config[1], 0, config[1].workerId, config[1].processId, 0)

\* C31: every ID generate() returns is accepted by decompose, and compose,
\* called on the same instance with the four fields decompose returned,
\* accepts them and returns exactly that ID.
C31_ReverseRoundTrip ==
    [][\A i \in DOMAIN status :
          /\ (ev.op = "generate" /\ ev.res.kind = "id"
                /\ Decompose(i, [typeof |-> "bigint", val |-> ev.res.id]))
                => ev'.res.kind = "components"
          /\ (ev.op = "decompose" /\ ev.res.kind = "components"
                /\ Compose(i, ev.res.timestamp, ev.res.workerId, ev.res.processId,
                           ev.res.sequence))
                => ev'.res = Returned(ev.args.val)]_vars

\* C32: only the first clock reading of a generate() call is checked against
\* lastTimestamp.  A call polling after its sequence ran out keeps polling,
\* with no error and the state untouched, at every reading that is not past
\* the exhausted millisecond, readings below it included; the reading it
\* finally adopts is strictly greater than the exhausted millisecond; and
\* ClockBackwardsError comes only from a call that was not polling.
C32_NoBackwardsCheckWhilePolling ==
    [][\A i \in DOMAIN status :
          /\ pc[i] = "waiting" => currentTimestamp[i] = lastTimestamp[i]
          /\ (Poll(i) /\ now - config[i].epoch <= currentTimestamp[i])
                => /\ pc'[i] = "waiting" /\ ev' = ev
                   /\ lastTimestamp'[i] = lastTimestamp[i]
                   /\ sequence'[i] = sequence[i]
          /\ (Poll(i) /\ pc'[i] = "idle")
                => /\ ev'.res.kind \in {"id", "TimestampExhaustedError"}
                   /\ ev'.args = <<currentTimestamp[i]>>
                   /\ lastTimestamp'[i] = now - config[i].epoch
                   /\ lastTimestamp'[i] > currentTimestamp[i]
          /\ (pc[i] = "waiting" /\ pc'[i] = "idle")
                => ev'.res.kind # "ClockBackwardsError"]_vars

\* The clock regressed below the exhausted millisecond while the call polled,
\* came back past it, and the call returned an ID of a later millisecond.
C32_Witness ==
    /\ watch = "regressed" /\ pc[1] = "idle"
    /\ ev.op = "generate" /\ ev.inst = 1 /\ ev.res.kind = "id"
    /\ Len(ev.args) = 1
    /\ TimestampField(config[1], ev.res.id) > ev.args[1]
    /\ lastTimestamp[1] = TimestampField(config[1], ev.res.id)

====
